---- MODULE Spec2Model ----
(***************************************************************************)
(* Agent-based SIR-with-death simulator (src/sir.py): Disease, Infection,  *)
(* Person and Community.  Random draws (numpy.random) are nondeterministic *)
(* choices over small sets.  The Disease is constructed with a case        *)
(* fatality rate strictly between 0 and 1 and positive period means.       *)
(***************************************************************************)
EXTENDS Integers, Sequences, FiniteSets, TLC

\* ------------------------------------------------------------------ bounds
NumPeople == 3          \* Community.size
MaxPeriod == 1          \* largest value a Poisson period draw returns
MaxSurvival == 2        \* largest value the geometric survival draw returns
MaxInteractions == 2    \* largest value the Poisson interaction draw returns
RateScale == 2          \* infection_rate and uniform draws are multiples of 1/RateScale
MaxCalls == 3           \* cap on direct advance_infection calls per Infection
MaxSeed == 4            \* largest num passed to init_infected (above NumPeople)
NumSubjects == 2        \* Person objects the direct Person and Infection calls are made on
MaxPeriodP == 2         \* largest Poisson period draw in the direct Person calls
MaxSurvivalP == 3       \* largest geometric survival draw in the direct Person calls

\* --------------------------------------------------------- program constants
SUSCEPTIBLE == 0
INFECTED == 1
RECOVERED == 2
DEAD == 3

INCUBATION == 0
ILLNESS == 1
FINISHED == 2

\* An attribute that was never assigned on the instance.
Unset == -1

People == 1..NumPeople

\* interaction_dist.sample() at the construction of the Community: a positive mean.
InteractionSamples == {1}
\* Disease.infection_rate, in units of 1/RateScale: 0 and a rate strictly inside
\* (0, 1), under which a contact may or may not transmit.
InfectionRates == {0, 1}
TheDisease == 1
NoDisease == 0

VARIABLES
  people,        \* Community.people: person id -> Person object
  disease,       \* the Disease object (immutable after construction)
  pc,            \* the running call: "idle" between calls
  err,           \* outcome of the last finished call: "none" or the exception
  num,           \* init_infected: its argument, the size of the array `infected`
  sample,        \* advance_time: the permutation drawn by choice(..., replace=False)
  live,          \* Community.interact: its argument `sample` (the non-DEAD persons)
  idx            \* position of the running loop (1-based)

vars == <<people, disease, pc, err, num, sample, live, idx>>

\* ----------------------------------------------------------------- Disease
\* d is the reference a Person holds to its disease; there is one Disease object.
get_infection_rate(d) == disease.infection_rate

\* PoissonDist.sample() for a positive mean: any count, here up to maxp.
get_incubation_period(maxp) == 0..maxp
get_illness_period(maxp) == 0..maxp

\* --------------------------------------------------------------- Infection
NoInfection ==
  [status |-> Unset, incubation_period |-> 0, illness_period |-> 0,
   daily_mortality |-> "none", incubation_counter |-> 0, illness_counter |-> 0,
   InfectionState |-> Unset]

\* 1 - exp(log(1 - cfr) / illness_period) with 0 < cfr < 1: a value strictly
\* between 0 and 1, and exactly 1 when illness_period is 0 (log(1-cfr)/0 = -inf).
daily_mortality(illness_period) ==
  IF illness_period = 0 THEN "one" ELSE "fraction"

Infection_init(inc, illp) ==
  [status |-> INCUBATION, incubation_period |-> inc, illness_period |-> illp,
   daily_mortality |-> daily_mortality(illp),
   incubation_counter |-> 0, illness_counter |-> 0, InfectionState |-> Unset]

increment_incubation_counter(inf) ==
  [inf EXCEPT !.incubation_counter = @ + 1]

increment_illness_counter(inf) ==
  [inf EXCEPT !.illness_counter = @ + 1]

set_status_illness(inf) == [inf EXCEPT !.status = ILLNESS]

\* Assigns the instance attribute InfectionState, not status.
set_status_finished(inf) == [inf EXCEPT !.InfectionState = FINISHED]

advance_infection(inf) ==
  IF inf.status = INCUBATION
  THEN LET i1 == increment_incubation_counter(inf)
       IN  IF i1.incubation_counter >= i1.incubation_period
           THEN set_status_illness(i1) ELSE i1
  ELSE IF inf.status = ILLNESS
  THEN LET i1 == increment_illness_counter(inf)
       IN  IF i1.illness_counter >= i1.illness_period
           THEN set_status_finished(i1) ELSE i1
  ELSE inf

\* The attributes __init__ assigns on an Infection instance (lines 70-81).
InfectionAttributes ==
  {"_person", "_disease", "_incubation_period", "_illness_period",
   "daily_mortality", "status", "_incubation_counter", "_illness_counter"}

\* Infection.get_recovery_time: reads self.incubation_period and
\* self.illness_period; a name that is not an attribute of the instance raises
\* AttributeError.
get_recovery_time(inf) ==
  IF {"incubation_period", "illness_period"} \subseteq InfectionAttributes
  THEN [error |-> "none", value |-> inf.incubation_period + inf.illness_period]
  ELSE [error |-> "AttributeError", value |-> Unset]

\* ------------------------------------------------------------------ Person
Person_init(avg) ==
  [avg_interactions |-> IF avg < 0 THEN 0 ELSE avg,
   disease |-> NoDisease, infection |-> NoInfection,
   status |-> SUSCEPTIBLE, survival_days |-> Unset]

update_interactions(person, avg) == [person EXCEPT !.avg_interactions = avg]

is_susceptible(person) == person.status = SUSCEPTIBLE
is_infected(person) == person.status = INFECTED

\* numpy.random.geometric(p): 1 when p = 1, any count >= 1 otherwise, here up
\* to maxs.
geometric(p, maxs) == IF p = "one" THEN {1} ELSE 1..maxs

infect(person, d, inc, illp, surv) ==
  [person EXCEPT !.disease = d, !.status = INFECTED,
                 !.infection = Infection_init(inc, illp),
                 !.survival_days = surv]

\* The draws one infect call makes: incubation period, illness period, survival days.
InfectDrawsUpTo(maxp, maxs) ==
  {dr \in [inc : get_incubation_period(maxp), illp : get_illness_period(maxp),
           surv : 1..maxs] :
     dr.surv \in geometric(daily_mortality(dr.illp), maxs)}

\* The draws of an infect call made inside a Community operation.
InfectDraws == InfectDrawsUpTo(MaxPeriod, MaxSurvival)

\* np.random.uniform() in [0, 1), in units of 1/RateScale.
UniformDraws == 0..(RateScale - 1)

\* Mutant of interact: the comparison with the infection rate admits equality.
interact_le(self, person) ==
  IF is_infected(self) /\ is_susceptible(person)
  THEN {IF r <= get_infection_rate(self.disease)
        THEN infect(person, self.disease, dr.inc, dr.illp, dr.surv)
        ELSE person : r \in UniformDraws, dr \in InfectDraws}
  ELSE {person}

\* Mutant of interact: the status of the receiver is not read.
interact_receiver_unread(self, person) ==
  IF is_infected(self)
  THEN {IF r < get_infection_rate(self.disease)
        THEN infect(person, self.disease, dr.inc, dr.illp, dr.surv)
        ELSE person : r \in UniformDraws, dr \in InfectDraws}
  ELSE {person}

\* Mutant of interact: the status of the caller is not read.
interact_caller_unread(self, person) ==
  IF is_susceptible(person)
  THEN {IF r < get_infection_rate(self.disease)
        THEN infect(person, self.disease, dr.inc, dr.illp, dr.surv)
        ELSE person : r \in UniformDraws, dr \in InfectDraws}
  ELSE {person}

\* Person.interact(self, person): the states it can leave `person` in, over the
\* draws it makes (the uniform draw and, through infect, the period and survival
\* draws are made only on the branch that uses them).
interact(self, person) ==
  IF is_infected(self) /\ is_susceptible(person)
  THEN {IF r < get_infection_rate(self.disease)
        THEN infect(person, self.disease, dr.inc, dr.illp, dr.surv)
        ELSE person : r \in UniformDraws, dr \in InfectDraws}
  ELSE {person}

\* Mutant of advance_condition: survival_days is decremented in every call on
\* an INFECTED person, whatever the state of the infection.
advance_condition_any_state(person) ==
  IF is_infected(person)
  THEN LET inf == advance_infection(person.infection)
           p1 == [person EXCEPT !.infection = inf]
           p2 == [p1 EXCEPT !.survival_days = @ - 1]
       IN  IF p2.survival_days <= 0
           THEN [p2 EXCEPT !.status = DEAD] ELSE p2
  ELSE person

\* Mutant of advance_condition: the guard is is_ill, so an infection in
\* INCUBATION is never advanced.
advance_condition_ill_only(person) ==
  IF is_infected(person) /\ person.infection.status = ILLNESS
  THEN LET inf == advance_infection(person.infection)
           p1 == [person EXCEPT !.infection = inf]
       IN  IF inf.status = ILLNESS
           THEN LET p2 == [p1 EXCEPT !.survival_days = @ - 1]
                IN  IF p2.survival_days <= 0
                    THEN [p2 EXCEPT !.status = DEAD] ELSE p2
           ELSE IF inf.status = FINISHED
           THEN [p1 EXCEPT !.status = RECOVERED, !.infection = NoInfection]
           ELSE p1
  ELSE person

\* Mutant of advance_condition: the death branch assigns the wrong status constant.
advance_condition_wrong_status(person) ==
  IF is_infected(person)
  THEN LET inf == advance_infection(person.infection)
           p1 == [person EXCEPT !.infection = inf]
       IN  IF inf.status = ILLNESS
           THEN LET p2 == [p1 EXCEPT !.survival_days = @ - 1]
                IN  IF p2.survival_days <= 0
                    THEN [p2 EXCEPT !.status = SUSCEPTIBLE] ELSE p2
           ELSE IF inf.status = FINISHED
           THEN [p1 EXCEPT !.status = RECOVERED, !.infection = NoInfection]
           ELSE p1
  ELSE person

advance_condition(person) ==
  IF is_infected(person)
  THEN LET inf == advance_infection(person.infection)
           p1 == [person EXCEPT !.infection = inf]
       IN  IF inf.status = ILLNESS
           THEN LET p2 == [p1 EXCEPT !.survival_days = @ - 1]
                IN  IF p2.survival_days <= 0
                    THEN [p2 EXCEPT !.status = DEAD] ELSE p2
           ELSE IF inf.status = FINISHED
           THEN [p1 EXCEPT !.status = RECOVERED, !.infection = NoInfection]
           ELSE p1
  ELSE person

\* --------------------------------------------------------------- Community
\* The list comprehension [p for p in s if p.status ... ].
\* Mutant of NotDead: the DEAD persons are not filtered out.
NotDead_unfiltered(s) == s

NotDead(s) == LET T(p) == people[p].status # DEAD IN SelectSeq(s, T)

\* Mutant of Infected: only the persons whose infection is in ILLNESS (is_ill).
Infected_ill(s) ==
  LET T(p) == people[p].status = INFECTED /\ people[p].infection.status = ILLNESS
  IN  SelectSeq(s, T)

Infected(s) == LET T(p) == people[p].status = INFECTED IN SelectSeq(s, T)
Without(s, q) == LET T(p) == p # q IN SelectSeq(s, T)

Range(s) == {s[k] : k \in DOMAIN s}
Injective(s) == \A a, b \in DOMAIN s : a # b => s[a] # s[b]

\* choice(a, size=n): n draws with replacement.
choice(a, n) == [1..n -> Range(a)]
\* choice(a, size=n, replace=False): n distinct draws; no result when n > len(a).
choice_no_replace(a, n) == {s \in [1..n -> Range(a)] : Injective(s)}

\* np.random.poisson(lam): 0 when lam is 0.
poisson(lam) == IF lam = 0 THEN {0} ELSE 0..MaxInteractions

\* for i in interactions: p.interact(i): the populations it can end in.
RECURSIVE interact_all(_, _, _)
interact_all(ppl, p, c) ==
  IF c = <<>> THEN {ppl}
  ELSE UNION {interact_all([ppl EXCEPT ![Head(c)] = o], p, Tail(c)) :
                o \in interact(ppl[p], ppl[Head(c)])}

\* Community.advance_conditions(sample): for p in sample: p.advance_condition().
RECURSIVE advance_conditions(_, _)
advance_conditions(ppl, s) ==
  IF s = <<>> THEN ppl
  ELSE advance_conditions([ppl EXCEPT ![Head(s)] = advance_condition(@)], Tail(s))

\* The locals of a call that has returned.
Locals0 ==
  /\ num' = 0
  /\ sample' = <<>>
  /\ live' = <<>>
  /\ idx' = 0

\* Community(interaction_dist, size) and a Disease.
Init ==
  /\ people \in [People -> {Person_init(a) : a \in InteractionSamples}]
  /\ disease \in [infection_rate : InfectionRates]
  /\ pc = "idle"
  /\ err = "none"
  /\ num = 0
  /\ sample = <<>>
  /\ live = <<>>
  /\ idx = 0

\* init_infected(num, disease) is entered.  choice(self.people, size=num) draws
\* with replacement: its elements are independent draws from the population, each
\* made here when the loop reaches it.
InitInfectedCall(n) ==
  /\ pc = "idle"
  /\ pc' = "init_infected"
  /\ num' = n
  /\ idx' = 1
  /\ err' = "none"
  /\ UNCHANGED <<people, disease, sample, live>>

\* init_infected: one iteration of `for p in infected: p.infect(disease)`.
InitInfectedStep ==
  /\ pc = "init_infected"
  /\ idx <= num
  /\ \E a \in choice([p \in People |-> p], 1), dr \in InfectDraws :
       people' = [people EXCEPT ![a[1]] = infect(@, TheDisease, dr.inc, dr.illp, dr.surv)]
  /\ idx' = idx + 1
  /\ UNCHANGED <<disease, pc, err, num, sample, live>>

\* init_infected: the loop is over, the call returns.
InitInfectedReturn ==
  /\ pc = "init_infected"
  /\ idx > num
  /\ pc' = "idle"
  /\ Locals0
  /\ UNCHANGED <<people, disease, err>>

\* advance_time: line 234 draws the permutation, line 235 enters Community.interact
\* with the persons of it that are not DEAD.
AdvanceTimeCall ==
  /\ pc = "idle"
  /\ \E s \in choice_no_replace([p \in People |-> p], NumPeople) :
       /\ sample' = s
       /\ live' = NotDead(s)
  /\ pc' = "interact"
  /\ idx' = 1
  /\ err' = "none"
  /\ UNCHANGED <<people, disease, num>>

\* Mutant of interactions: the partners are drawn with replacement.
interactions_replace(others, n) == choice(others, n)

\* Community.interact, lines 247-251: the partner arrays choice can return for
\* n_interactions = n; none when more partners are asked for than there are.
interactions(others, n) == choice_no_replace(others, n)

\* Community.interact, lines 246-253: one iteration of `for p in sample`, for
\* p = sample[idx], with n_interactions = n.  choice raises ValueError when more
\* partners are asked for than there are, and advance_time ends there.
InteractTurnN(n) ==
  /\ pc = "interact"
  /\ idx <= Len(live)
  /\ n \in poisson(people[live[idx]].avg_interactions)
  /\ LET p == live[idx]
         others == Without(live, p)
     IN  IF interactions(others, n) = {}
         THEN /\ err' = "ValueError"
              /\ pc' = "idle"
              /\ Locals0
              /\ UNCHANGED <<people, disease>>
         ELSE /\ \E c \in interactions(others, n) :
                   people' \in interact_all(people, p, c)
              /\ idx' = idx + 1
              /\ UNCHANGED <<disease, pc, err, num, sample, live>>

InteractTurn == \E n \in 0..MaxInteractions : InteractTurnN(n)

\* advance_time, line 236: Community.interact has returned; advance_conditions
\* runs on the persons of the permutation that are INFECTED now, and the call
\* returns.
AdvanceConditions ==
  /\ pc = "interact"
  /\ idx > Len(live)
  /\ people' = advance_conditions(people, Infected(sample))
  /\ pc' = "idle"
  /\ Locals0
  /\ UNCHANGED <<disease, err>>

Next ==
  \/ \E n \in 0..MaxSeed : InitInfectedCall(n)
  \/ InitInfectedStep
  \/ InitInfectedReturn
  \/ AdvanceTimeCall
  \/ InteractTurn
  \/ AdvanceConditions

\* A Community and any sequence of init_infected and advance_time calls.
Spec == Init /\ [][Next]_vars

\* ---------------------------------------------- seeding a fresh Community
AllSusceptible == \A p \in People : is_susceptible(people[p])

SeedNext ==
  \/ \E n \in 0..MaxSeed : AllSusceptible /\ InitInfectedCall(n)
  \/ InitInfectedStep
  \/ InitInfectedReturn

\* init_infected called only on a Community in which every person is SUSCEPTIBLE.
SeedSpec == Init /\ [][SeedNext]_vars

\* ------------------------------------------- an epidemic left to itself
\* A Community on which init_infected calls have been made and nothing else:
\* every person is as constructed or as infect left it.
EpidemicInit ==
  /\ people \in [People ->
        {Person_init(a) : a \in InteractionSamples}
        \cup {infect(Person_init(a), TheDisease, dr.inc, dr.illp, dr.surv) :
                a \in InteractionSamples, dr \in InfectDraws}]
  /\ disease \in [infection_rate : InfectionRates]
  /\ pc = "idle"
  /\ err = "none"
  /\ num = 0
  /\ sample = <<>>
  /\ live = <<>>
  /\ idx = 0

TickNext ==
  \/ AdvanceTimeCall
  \/ InteractTurn
  \/ AdvanceConditions

\* advance_time called again and again on a seeded Community, with no further
\* init_infected call.
TickSpec == EpidemicInit /\ [][TickNext]_vars

\* A turn at position k of the pass whose draw choice can serve.
TurnServed(k) == InteractTurn /\ idx = k /\ idx' = k + 1

\* The same, with its scheduling: the caller keeps calling advance_time, a call
\* that is running takes its next step, and the Poisson draw of a turn, which
\* returns a count choice can serve (0 at least) with positive probability
\* every time, does so again and again at every position of the pass.
FairTickSpec ==
  /\ TickSpec
  /\ WF_vars(AdvanceTimeCall)
  /\ WF_vars(AdvanceConditions)
  /\ \A k \in 1..NumPeople : SF_vars(TurnServed(k))

\* ------------------------------------- direct Person and Infection calls
Subjects == 1..NumSubjects

\* The draws of a direct infect call.
PersonInfectDraws == InfectDrawsUpTo(MaxPeriodP, MaxSurvivalP)

Frame == UNCHANGED <<disease, pc, num, sample, live, idx>>

\* p.infect(disease)
PersonInfect(p) ==
  /\ pc = "idle"
  /\ \E dr \in PersonInfectDraws :
       people' = [people EXCEPT ![p] = infect(@, TheDisease, dr.inc, dr.illp, dr.surv)]
  /\ err' = "none"
  /\ Frame

\* p.advance_condition()
PersonAdvanceCondition(p) ==
  /\ pc = "idle"
  /\ people' = [people EXCEPT ![p] = advance_condition(@)]
  /\ err' = "none"
  /\ Frame

\* p.infection.advance_infection(), on a Person that holds an Infection
InfectionAdvance(p) ==
  /\ pc = "idle"
  /\ people[p].infection # NoInfection
  /\ people[p].infection.incubation_counter + people[p].infection.illness_counter < MaxCalls
  /\ people' = [people EXCEPT ![p].infection = advance_infection(@)]
  /\ err' = "none"
  /\ Frame

PersonNext ==
  \E p \in Subjects :
    \/ PersonInfect(p)
    \/ PersonAdvanceCondition(p)
    \/ InfectionAdvance(p)

\* Person objects and any sequence of direct calls on them.
PersonSpec == Init /\ [][PersonNext]_vars

\* ------------------------- direct Person calls on a Community with one case
\* The arguments update_interactions is called with.
UpdateArgs == {-1, 1}

\* p.update_interactions(v)
PersonUpdateInteractions(p) ==
  /\ pc = "idle"
  /\ \E v \in UpdateArgs : people' = [people EXCEPT ![p] = update_interactions(@, v)]
  /\ err' = "none"
  /\ Frame

\* p.interact(q)
PersonInteract(p, q) ==
  /\ pc = "idle"
  /\ \E o \in interact(people[p], people[q]) : people' = [people EXCEPT ![q] = o]
  /\ err' = "none"
  /\ Frame

\* p.infection.get_recovery_time(), on a Person that holds an Infection
GetRecoveryTime(p) ==
  /\ pc = "idle"
  /\ people[p].infection # NoInfection
  /\ err' = get_recovery_time(people[p].infection).error
  /\ UNCHANGED people
  /\ Frame

\* A Community on which init_infected(1, disease) has been called.
OneCaseInit ==
  /\ EpidemicInit
  /\ Cardinality({p \in People : is_infected(people[p])}) = 1

ContactNext ==
  \E p \in Subjects :
    \/ PersonAdvanceCondition(p)
    \/ PersonUpdateInteractions(p)
    \/ \E q \in Subjects : PersonInteract(p, q)
    \/ GetRecoveryTime(p)

\* Person objects of a Community with one seeded case, and any sequence of
\* direct advance_condition, update_interactions, interact and
\* get_recovery_time calls on them.
ContactSpec == OneCaseInit /\ [][ContactNext]_vars

\* ================================================================ claims
Count(st) == Cardinality({p \in People : people[p].status = st})

\* A status change along SUSCEPTIBLE -> INFECTED -> {RECOVERED | DEAD}, or none.
Forward(a, b) ==
  \/ a = b
  \/ a = SUSCEPTIBLE /\ b = INFECTED
  \/ a = INFECTED /\ b \in {RECOVERED, DEAD}

\* C1: under any sequence of init_infected and advance_time calls no step moves
\* a Person's status other than forward along
\* SUSCEPTIBLE -> INFECTED -> {RECOVERED | DEAD}.
C1_Claim ==
  [][\A p \in People : Forward(people[p].status, people'[p].status)]_vars

\* C2: between calls every Person holds an Infection iff its status is INFECTED.
C2_Claim ==
  pc = "idle" =>
    \A p \in People : (people[p].infection # NoInfection) <=> (people[p].status = INFECTED)

\* The survival_days a Person whose infection is in ILLNESS was infected with:
\* advance_condition has decremented it once on the call that ended the
\* incubation and once for every illness day counted since.
SampledSurvival(p) ==
  people[p].survival_days + people[p].infection.illness_counter + 1

\* C3: a Person infected with survival_days larger than its illness day-count
\* does not keep its Infection once that day-count is used up: the
\* advance_condition call that uses it up sets the Person RECOVERED and
\* releases the Infection (it is neither still INFECTED nor DEAD).
C3_Claim ==
  \A p \in People :
    ~ ( /\ people[p].infection # NoInfection
        /\ people[p].infection.status = ILLNESS
        /\ people[p].infection.illness_period >= 1
        /\ SampledSurvival(p) > people[p].infection.illness_period
        /\ people[p].infection.illness_counter >= people[p].infection.illness_period )

\* C4: an Infection on which as many advance_infection calls were made in
\* ILLNESS as its illness day-count (at least one) reads FINISHED.
C4_Claim ==
  \A p \in People :
    ( /\ people[p].infection # NoInfection
      /\ people[p].infection.illness_counter >= 1
      /\ people[p].infection.illness_counter >= people[p].infection.illness_period )
    => people[p].infection.status = FINISHED

\* C5: when init_infected(k, disease), 0 <= k <= size, called on a Community of
\* SUSCEPTIBLE persons has run its loop, exactly k persons are INFECTED and
\* size - k are SUSCEPTIBLE.
C5_Claim ==
  (pc = "init_infected" /\ idx > num /\ num <= NumPeople) =>
    (Count(INFECTED) = num /\ Count(SUSCEPTIBLE) = NumPeople - num)

\* C6: no step of init_infected(k, disease) with k above the population size
\* changes a Person, and the call returns with an error.
C6_Claim ==
  [][(pc = "init_infected" /\ num > NumPeople) =>
       (people' = people /\ (pc' = "idle" => err' # "none"))]_vars

\* C7: infect called on a Person that is not SUSCEPTIBLE signals an error and
\* leaves the Person as it was.
C7_Claim ==
  [][\A p \in Subjects :
       (people[p].status # SUSCEPTIBLE /\ PersonInfect(p))
       => (err' # "none" /\ people'[p] = people[p])]_vars

\* C8: with infection_rate 0 no step of advance_time moves a person from
\* SUSCEPTIBLE to INFECTED.
C8_NoTransmissionAtRateZero ==
  [][(get_infection_rate(TheDisease) = 0 /\ pc = "interact") =>
       \A p \in People : people[p].status = SUSCEPTIBLE => people'[p].status = SUSCEPTIBLE]_vars

\* Under rate 0 a turn of an INFECTED person has passed in a tick and a
\* SUSCEPTIBLE person is among those it could draw.
C8_Witness ==
  /\ get_infection_rate(TheDisease) = 0
  /\ pc = "interact"
  /\ idx > 1
  /\ people[live[idx - 1]].status = INFECTED
  /\ \E q \in People : q # live[idx - 1] /\ people[q].status = SUSCEPTIBLE

\* C9: over every step the count infected + recovered + dead never decreases
\* (the SUSCEPTIBLE count never increases), and it equals the population size
\* whenever no SUSCEPTIBLE person remains.
C9_CountsMonotone ==
  [][/\ Count(INFECTED)' + Count(RECOVERED)' + Count(DEAD)'
          >= Count(INFECTED) + Count(RECOVERED) + Count(DEAD)
     /\ Count(SUSCEPTIBLE)' <= Count(SUSCEPTIBLE)
     /\ Count(SUSCEPTIBLE)' = 0 =>
          Count(INFECTED)' + Count(RECOVERED)' + Count(DEAD)' = NumPeople]_vars

\* A tick has ended with nobody SUSCEPTIBLE left and somebody DEAD.
C9_Witness ==
  /\ pc = "idle"
  /\ Count(SUSCEPTIBLE) = 0
  /\ Count(DEAD) >= 1
  /\ Count(INFECTED) >= 1

\* C10: in the interaction pass every initiator is a person that is not DEAD,
\* and every partner array the current turn can draw holds pairwise distinct
\* persons that are not DEAD and are not the initiator; no step of the tick
\* changes a DEAD person.
C10_State ==
  pc = "interact" =>
    /\ \A k \in 1..Len(live) : people[live[k]].status # DEAD
    /\ idx <= Len(live) =>
         \A n \in poisson(people[live[idx]].avg_interactions) :
           \A c \in choice_no_replace(Without(live, live[idx]), n) :
             /\ Injective(c)
             /\ \A k \in 1..n : /\ c[k] # live[idx]
                                /\ people[c[k]].status # DEAD

\* C10, with its frame: the draws above hold in every state of the pass, and no
\* step of a tick changes a DEAD person (it neither initiates nor receives).
C10_LivePartners ==
  /\ []C10_State
  /\ [][pc = "interact" =>
          \A p \in People : people[p].status = DEAD => people'[p] = people[p]]_vars

\* A turn is about to draw its partners in a tick in which one person is DEAD
\* and an earlier turn has passed.
C10_Witness ==
  /\ pc = "interact"
  /\ idx > 1
  /\ idx <= Len(live)
  /\ Count(DEAD) = 1

\* C11: in the interaction pass, a turn whose drawn interaction count n is
\* larger than the number of other live persons ends the call with an error
\* and changes no person; every partner array a turn can proceed with has
\* exactly n pairwise distinct entries.
C11_State ==
  (pc = "interact" /\ idx <= Len(live)) =>
    \A n \in poisson(people[live[idx]].avg_interactions) :
      \A c \in interactions(Without(live, live[idx]), n) :
        Len(c) = n /\ Injective(c)

C11_InsufficientPartners ==
  /\ []C11_State
  /\ [][\A n \in 0..MaxInteractions :
          (InteractTurnN(n) /\ n > Len(Without(live, live[idx])))
          => (err' = "ValueError" /\ pc' = "idle" /\ people' = people)]_vars

\* A tick has ended in the error: with somebody DEAD, a turn drew more
\* partners than there were other live persons.
C11_Witness ==
  /\ pc = "idle"
  /\ err = "ValueError"
  /\ Count(DEAD) >= 1

\* The advance_infection calls made so far on the Infection of person p.
DaysCounted(p) ==
  people[p].infection.incubation_counter + people[p].infection.illness_counter

\* C12: within one advance_time call no step of the interaction pass applies
\* advance_condition (an INFECTED person is left as it is, a person infected in
\* the pass holds an Infection with no day counted), and the step that ends the
\* call applies advance_condition exactly once to every person that is INFECTED
\* after the interaction pass and to nobody else.
C12_ConditionPassAfterInteractions ==
  [][/\ (pc = "interact" /\ idx <= Len(live)) =>
          \A p \in People :
            /\ people[p].status # SUSCEPTIBLE => people'[p] = people[p]
            /\ people'[p] # people[p] =>
                  (people'[p].status = INFECTED /\ DaysCounted(p)' = 0)
     /\ (pc = "interact" /\ idx > Len(live)) =>
          \A p \in People :
            people'[p] = IF people[p].status = INFECTED
                         THEN advance_condition(people[p]) ELSE people[p]]_vars

\* A tick has ended without error in which a person was advanced for the
\* first time while another person had been advanced in an earlier tick too.
C12_Witness ==
  /\ pc = "idle"
  /\ err = "none"
  /\ \E p, q \in People :
       /\ people[p].status = INFECTED
       /\ DaysCounted(p) = 1
       /\ people[q].infection # NoInfection
       /\ DaysCounted(q) >= 2

\* C13: in the interaction pass the status of the initiator is the one it has
\* when its turn comes.  Every person has one turn; an initiator that is
\* INFECTED at its turn (whenever it was infected, this pass included) can
\* infect every SUSCEPTIBLE other live person if the rate is positive.
C13_State ==
  pc = "interact" =>
    /\ Injective(live)
    /\ (/\ idx <= Len(live)
        /\ is_infected(people[live[idx]])
        /\ get_infection_rate(people[live[idx]].disease) > 0) =>
         \A q \in Range(Without(live, live[idx])) :
           is_susceptible(people[q]) =>
             \E n \in poisson(people[live[idx]].avg_interactions) :
               \E c \in interactions(Without(live, live[idx]), n) :
                 \E ppl \in interact_all(people, live[idx], c) :
                   is_infected(ppl[q])

\* C13, with the other direction: a turn of a person that is not INFECTED when
\* the turn comes changes nobody, and a turn changes only other persons than
\* its initiator; so a person infected after its turn has transmitted to nobody
\* in that tick.
C13_StatusReadAtTurn ==
  /\ []C13_State
  /\ [][(pc = "interact" /\ idx <= Len(live)) =>
          /\ ~ is_infected(people[live[idx]]) => people' = people
          /\ people'[live[idx]] = people[live[idx]]]_vars

\* Nobody has died, so no tick was cut short; somebody has a day counted, so a
\* tick has run its condition pass; the person whose turn it is holds an
\* Infection with no day counted: it was infected by an earlier initiator of
\* this very pass.  A SUSCEPTIBLE person is among those it can draw.
C13_Witness ==
  /\ pc = "interact"
  /\ idx >= 2
  /\ idx <= Len(live)
  /\ Count(DEAD) = 0
  /\ get_infection_rate(TheDisease) > 0
  /\ is_infected(people[live[idx]])
  /\ DaysCounted(live[idx]) = 0
  /\ \E a \in People : people[a].infection # NoInfection /\ DaysCounted(a) >= 1
  /\ \E q \in People : is_susceptible(people[q])

\* C14: every Person's avg_interactions is >= 0 in every reachable state,
\* update_interactions calls included.
C14_Claim ==
  \A p \in People : people[p].avg_interactions >= 0

\* C15: every Infection that is created has illness_period >= 1.
C15_Claim ==
  \A p \in People :
    people[p].infection # NoInfection => people[p].infection.illness_period >= 1

\* C16: a step p.interact(q) leaves the caller p and every third person as
\* they were; it changes q only if p was INFECTED and q SUSCEPTIBLE, and then
\* q is INFECTED with the disease of p and holds an Infection with no day
\* counted; a caller that is not INFECTED changes nothing.
C16_OneDirectional ==
  [][\A p, q \in Subjects :
       PersonInteract(p, q) =>
         /\ people'[p].status = people[p].status
         /\ people'[p].infection = people[p].infection
         /\ \A x \in People \ {q} : people'[x] = people[x]
         /\ ~ is_infected(people[p]) => people' = people
         /\ people'[q] # people[q] =>
              /\ is_infected(people[p])
              /\ is_susceptible(people[q])
              /\ is_infected(people'[q])
              /\ people'[q].disease = people[p].disease
              /\ people'[q].infection.status = INCUBATION
              /\ DaysCounted(q)' = 0]_vars

\* Two persons hold an Infection in a Community seeded with one case: the
\* second was infected by an interact call of the first.
C16_Witness ==
  \E p, q \in Subjects :
    /\ p # q
    /\ people[p].infection # NoInfection
    /\ is_infected(people[q])
    /\ DaysCounted(q) = 0
    /\ people[q].disease = people[p].disease

\* C17: the daily_mortality h of every Infection satisfies
\* (1 - h)^illness_period = 1 - cfr.  With 0 < cfr < 1 the right side lies
\* strictly between 0 and 1, which the left side does only for h strictly
\* between 0 and 1 and illness_period >= 1.
C17_Claim ==
  \A p \in People :
    people[p].infection # NoInfection =>
      /\ people[p].infection.daily_mortality = "fraction"
      /\ people[p].infection.illness_period >= 1

\* C18: get_recovery_time on an Infection completes without error and changes
\* no field of the Infection or its Person.
C18_Claim ==
  [][\A p \in Subjects :
       GetRecoveryTime(p) => (err' = "none" /\ people' = people)]_vars

\* C19: a call p.advance_condition() changes survival_days only by decrementing
\* it once, and does so exactly when p is INFECTED and its infection is in
\* ILLNESS after the call; p becomes DEAD in the call exactly when that
\* decrement leaves survival_days <= 0.  So nobody becomes DEAD with an
\* infection still in INCUBATION, and survival_days = 1 means death in the
\* call in which the incubation ends.
C19_DecrementInIllness ==
  [][\A p \in Subjects :
       PersonAdvanceCondition(p) =>
         LET pre == people[p]
             post == people'[p]
             decremented == is_infected(pre) /\ post.infection.status = ILLNESS
         IN  /\ post.survival_days =
                  IF decremented THEN pre.survival_days - 1 ELSE pre.survival_days
             /\ post.status # pre.status =>
                  (post.status = DEAD /\ post.infection.status # INCUBATION)
             /\ post.status # pre.status <=>
                  (decremented /\ post.survival_days <= 0)
             /\ (is_infected(pre) /\ pre.infection.status = INCUBATION
                   /\ post.infection.status = ILLNESS /\ pre.survival_days = 1)
                  => post.status = DEAD]_vars

\* A Person infected with an incubation of two days is DEAD with no illness
\* day counted: it died in the call that ended its incubation, and the call
\* before that left it INFECTED in INCUBATION.
C19_Witness ==
  \E p \in Subjects :
    /\ people[p].status = DEAD
    /\ people[p].infection.incubation_period = 2
    /\ people[p].infection.incubation_counter = 2
    /\ people[p].infection.illness_counter = 0
    /\ people[p].survival_days = 0

====
